---------------------------- MODULE Spec2Model ----------------------------
(***************************************************************************)
(* A model of pages/firebase_utils.py (the Firestore REST adapter) and of  *)
(* the callers in pages/views.py.                                          *)
(*                                                                         *)
(* Python values are records [k |-> <type name>, v |-> <payload>]:         *)
(*   str   : v is the sequence of its characters                           *)
(*   int   : v is the integer          bool : v is TRUE / FALSE            *)
(*   float : v is the number of halves (3 is 1.5, 4 is 2.0)                *)
(*   list  : v is the sequence of elements                                 *)
(*   dict  : v is a function from keys (TLA+ strings) to Python values     *)
(*   NoneType : None                                                       *)
(* Wire values are Python dicts, exactly as in the source.                 *)
(***************************************************************************)
EXTENDS Integers, Sequences, FiniteSets, TLC

VARIABLES
    cpc,      \* codec run: "input" | "encoded" | "decoded"
    cdoc,     \* codec run: the host document (a dict)
    cwire,    \* codec run: the wire document built from cdoc
    cout,     \* codec run: the result of decoding cwire
    remote,   \* the remote store: document id -> its wire fields, or NoDoc
    cache,    \* django.core.cache: key -> value, or NoEntry
    pc,       \* per request process: where it is in its FirestoreClient call
    op,       \* per process: the method called
    doc,      \* per process: the document_id argument (one document per run)
    use_cache,\* per process: the use_cache argument of get_document
    payload,  \* per process: the data / updates argument
    sent,     \* per process: method and document of the HTTP request the call made, or NoReq
    resp,     \* per process: the HTTP response received (its status once the call returned)
    result,   \* per process: the value the call returned
    calls,    \* per process: number of calls made so far
    settled,  \* history: per id, the last write was a set_document that returned True
    written,  \* history: per id, the data of the last set_document the remote accepted
    fresh,    \* history: per process, the call began after the write settled
    wpc,      \* write-path run: "input" | "done"
    wdata,    \* write-path run: the data / updates dict passed in
    wpath,    \* write-path run: the function that ran
    wreq,     \* write-path run: the request it sent
    wresult,  \* write-path run: what it returned (Raised: an exception left it)
    qpc,      \* query run: "input" | "done"
    qfilters, \* query run: the filters list passed in
    qquery,   \* query run: the JSON body posted
    qresult,  \* query run: the list returned
    qfn,      \* query run: the query function that ran
    qresp,    \* query run: the HTTP response it received (Raised: requests.post raised)
    fpc,      \* function run: "input" | "done"
    fname,    \* function run: the function that ran
    fargs,    \* function run: its arguments
    fenv,     \* function run: what the remote side answered
    fout,     \* function run: what it returned (Raised: an exception left it)
    gpc,      \* per gig request: where it is in views.gig_creation
    gid,      \* per gig request: the id of the GigCreation row it created
    gresult,  \* per gig request: what set_document returned
    gtries,   \* per gig request: number of set_document calls it made
    rows,     \* the GigCreation table: ids of its rows
    mirror    \* the app_jobs collection: ids of the documents written by the flow

codecVars == <<cpc, cdoc, cwire, cout>>
procVars == <<pc, op, doc, use_cache, payload, sent, resp, result, calls>>
histVars == <<settled, written, fresh>>
gatewayVars == <<remote, cache, pc, op, doc, use_cache, payload, sent, resp, result,
                 calls, settled, written, fresh>>

writeVars == <<wpc, wdata, wpath, wreq, wresult>>

queryVars == <<qpc, qfilters, qquery, qresult, qfn, qresp>>

runVars == <<fpc, fname, fargs, fenv, fout>>

gigVars == <<gpc, gid, gresult, gtries, rows, mirror>>

vars == <<cpc, cdoc, cwire, cout, remote, cache, pc, op, doc, use_cache, payload,
          sent, resp, result, calls, settled, written, fresh,
          wpc, wdata, wpath, wreq, wresult, qpc, qfilters, qquery, qresult,
          qfn, qresp, fpc, fname, fargs, fenv, fout,
          gpc, gid, gresult, gtries, rows, mirror>>

-----------------------------------------------------------------------------
(* Python values *)

PyStr(s) == [k |-> "str", v |-> s]
PyInt(n) == [k |-> "int", v |-> n]
PyFloat(h) == [k |-> "float", v |-> h]
PyBool(b) == [k |-> "bool", v |-> b]
PyList(s) == [k |-> "list", v |-> s]
PyDict(f) == [k |-> "dict", v |-> f]
None == [k |-> "NoneType", v |-> 0]
PyTrue == PyBool(TRUE)
PyFalse == PyBool(FALSE)

\* An exception raised by a conversion (ValueError / TypeError).
Raised == [k |-> "exception", v |-> 0]

EmptyDict == PyDict(<<>>)

\* isinstance(value, int): bool is a subclass of int.
IsInstanceInt(value) == value.k \in {"int", "bool"}

\* `key in d` for a dict d.
HasKey(d, key) == d.k = "dict" /\ key \in DOMAIN d.v

\* d.get(key, default)
DictGet(d, key, default) == IF key \in DOMAIN d.v THEN d.v[key] ELSE default

Digits == <<"0", "1", "2", "3", "4", "5", "6", "7", "8", "9">>

RECURSIVE NatToChars(_)
NatToChars(n) ==
    IF n < 10 THEN <<Digits[n + 1]>>
    ELSE NatToChars(n \div 10) \o <<Digits[(n % 10) + 1]>>

\* The characters of the dict keys the model uses.
KeyChars(key) ==
    CASE key = "app" -> <<"a", "p", "p">>
      [] key = "title" -> <<"t", "i", "t", "l", "e">>
      [] key = "fields" -> <<"f", "i", "e", "l", "d", "s">>
      [] key = "tags" -> <<"t", "a", "g", "s">>
      [] key = "is_avail" -> <<"i", "s", "_", "a", "v", "a", "i", "l">>
      [] key = "token" -> <<"t", "o", "k", "e", "n">>
      [] key = "rank" -> <<"r", "a", "n", "k">>
      [] key = "state_list" -> <<"s", "t", "a", "t", "e", "_", "l", "i", "s", "t">>

\* The order in which a dict of the model lists its keys (the order of
\* insertion in Python; the model's dicts are built in this order).
KeyOrder == <<"title", "fields", "app", "is_avail", "tags", "token", "rank", "state_list">>

\* ", ".join(parts)
RECURSIVE JoinComma(_)
JoinComma(parts) ==
    IF parts = <<>> THEN <<>>
    ELSE IF Len(parts) = 1 THEN parts[1]
    ELSE parts[1] \o <<",", " ">> \o JoinComma(Tail(parts))

\* repr(value)
RECURSIVE py_repr(_)
py_repr(value) ==
    CASE value.k = "str" -> <<"'">> \o value.v \o <<"'">>
      [] value.k = "bool" -> IF value.v THEN <<"T", "r", "u", "e">>
                                        ELSE <<"F", "a", "l", "s", "e">>
      [] value.k = "int" -> IF value.v < 0 THEN <<"-">> \o NatToChars(-value.v)
                                           ELSE NatToChars(value.v)
      [] value.k = "float" ->
            LET halves == IF value.v < 0 THEN -value.v ELSE value.v IN
            (IF value.v < 0 THEN <<"-">> ELSE <<>>)
            \o NatToChars(halves \div 2)
            \o (IF halves % 2 = 1 THEN <<".", "5">> ELSE <<".", "0">>)
      [] value.k = "NoneType" -> <<"N", "o", "n", "e">>
      [] value.k = "list" ->
            <<"[">> \o JoinComma([i \in 1..Len(value.v) |-> py_repr(value.v[i])])
            \o <<"]">>
      [] value.k = "dict" ->
            LET keys == SelectSeq(KeyOrder, LAMBDA key : key \in DOMAIN value.v) IN
            <<"{">>
            \o JoinComma([i \in 1..Len(keys) |->
                   <<"'">> \o KeyChars(keys[i]) \o <<"'", ":", " ">>
                   \o py_repr(value.v[keys[i]])])
            \o <<"}">>

\* str(value)
py_str(value) ==
    CASE value.k = "bool" ->
            PyStr(IF value.v THEN <<"T", "r", "u", "e">>
                             ELSE <<"F", "a", "l", "s", "e">>)
      [] value.k = "int" ->
            PyStr(IF value.v < 0 THEN <<"-">> \o NatToChars(-value.v)
                                 ELSE NatToChars(value.v))
      [] value.k = "str" -> value
      [] value.k = "NoneType" -> PyStr(<<"N", "o", "n", "e">>)
      [] OTHER -> PyStr(py_repr(value))

IsDigit(c) == \E i \in 1..10 : Digits[i] = c

DigitVal(c) == (CHOOSE i \in 1..10 : Digits[i] = c) - 1

RECURSIVE CharsToNat(_)
CharsToNat(s) ==
    IF Len(s) = 1 THEN DigitVal(s[1])
    ELSE 10 * CharsToNat(SubSeq(s, 1, Len(s) - 1)) + DigitVal(s[Len(s)])

AllDigits(s) == Len(s) >= 1 /\ \A i \in 1..Len(s) : IsDigit(s[i])

\* int() left out: the numeral is passed on as it is.
py_int_unparsed(value) == value

\* int(value): a str is parsed as an optionally signed decimal numeral.
py_int(value) ==
    CASE value.k = "int" -> value
      [] value.k = "bool" -> PyInt(IF value.v THEN 1 ELSE 0)
      [] value.k = "float" ->
            PyInt(IF value.v >= 0 THEN value.v \div 2 ELSE -((-value.v) \div 2))
      [] value.k = "str" ->
            LET s == value.v IN
            IF AllDigits(s) THEN PyInt(CharsToNat(s))
            ELSE IF Len(s) >= 2 /\ s[1] \in {"-", "+"} /\ AllDigits(Tail(s))
                 THEN PyInt(IF s[1] = "-" THEN -CharsToNat(Tail(s))
                                          ELSE CharsToNat(Tail(s)))
                 ELSE Raised
      [] OTHER -> Raised

\* float(value)
py_float(value) ==
    CASE value.k = "float" -> value
      [] value.k = "int" -> PyFloat(2 * value.v)
      [] value.k = "bool" -> PyFloat(IF value.v THEN 2 ELSE 0)
      [] value.k = "str" ->
            IF py_int(value) = Raised THEN Raised
            ELSE PyFloat(2 * py_int(value).v)
      [] OTHER -> Raised

-----------------------------------------------------------------------------
(* FirestoreClient value codec *)

\* The encoder with the int test ahead of the bool tests.
RECURSIVE to_firestore_int_first(_)
to_firestore_int_first(value) ==
    IF value.k = "str" THEN PyDict("stringValue" :> value)
    ELSE IF IsInstanceInt(value) THEN PyDict("integerValue" :> py_str(value))
    ELSE IF value.k = "float" THEN PyDict("doubleValue" :> value)
    ELSE IF value.k = "bool" THEN PyDict("booleanValue" :> value)
    ELSE IF value.k = "list" THEN
        PyDict("arrayValue" :> PyDict("values" :>
            PyList([i \in 1..Len(value.v) |-> to_firestore_int_first(value.v[i])])))
    ELSE IF value = None THEN PyDict("nullValue" :> None)
    ELSE IF value.k = "dict" THEN
        PyDict("mapValue" :> PyDict("fields" :>
            PyDict([key \in DOMAIN value.v |-> to_firestore_int_first(value.v[key])])))
    ELSE PyDict("stringValue" :> py_str(value))

RECURSIVE to_firestore_convert_value(_)
to_firestore_convert_value(value) ==
    IF value = PyTrue THEN PyDict("booleanValue" :> PyTrue)
    ELSE IF value = PyFalse THEN PyDict("booleanValue" :> PyFalse)
    ELSE IF value.k = "str" THEN PyDict("stringValue" :> value)
    ELSE IF IsInstanceInt(value) THEN PyDict("integerValue" :> py_str(value))
    ELSE IF value.k = "float" THEN PyDict("doubleValue" :> value)
    ELSE IF value.k = "list" THEN
        PyDict("arrayValue" :> PyDict("values" :>
            PyList([i \in 1..Len(value.v) |-> to_firestore_convert_value(value.v[i])])))
    ELSE IF value = None THEN PyDict("nullValue" :> None)
    ELSE IF value.k = "dict" THEN
        PyDict("mapValue" :> PyDict("fields" :>
            PyDict([key \in DOMAIN value.v |-> to_firestore_convert_value(value.v[key])])))
    ELSE PyDict("stringValue" :> py_str(value))

_convert_to_firestore_format(data) ==
    PyDict([key \in DOMAIN data.v |-> to_firestore_convert_value(data.v[key])])

RECURSIVE from_firestore_convert_value(_)
from_firestore_convert_value(value) ==
    IF HasKey(value, "stringValue") THEN value.v["stringValue"]
    ELSE IF HasKey(value, "integerValue") THEN py_int(value.v["integerValue"])
    ELSE IF HasKey(value, "doubleValue") THEN py_float(value.v["doubleValue"])
    ELSE IF HasKey(value, "booleanValue") THEN value.v["booleanValue"]
    ELSE IF HasKey(value, "nullValue") THEN None
    ELSE IF HasKey(value, "timestampValue") THEN value.v["timestampValue"]
    ELSE IF HasKey(value, "arrayValue") THEN
        LET items == DictGet(value.v["arrayValue"], "values", PyList(<<>>)).v IN
        PyList([i \in 1..Len(items) |-> from_firestore_convert_value(items[i])])
    ELSE IF HasKey(value, "mapValue") THEN
        LET fields == DictGet(value.v["mapValue"], "fields", EmptyDict).v IN
        PyDict([key \in DOMAIN fields |-> from_firestore_convert_value(fields[key])])
    ELSE value

\* The decoder returning None for empty `fields` as well.
_convert_firestore_document_none_when_empty(firestore_doc) ==
    IF ~HasKey(firestore_doc, "fields") \/ firestore_doc.v["fields"] = EmptyDict
    THEN None
    ELSE LET fields == firestore_doc.v["fields"].v IN
         PyDict([key \in DOMAIN fields |-> from_firestore_convert_value(fields[key])])

_convert_firestore_document(firestore_doc) ==
    IF ~HasKey(firestore_doc, "fields") THEN None
    ELSE LET fields == firestore_doc.v["fields"].v IN
         PyDict([key \in DOMAIN fields |-> from_firestore_convert_value(fields[key])])

-----------------------------------------------------------------------------
(* The host values the checks range over *)

MaxListLen == 2

StrSamples == {<<>>, <<"7">>, <<"C", "o", "o", "k">>}
IntSamples == {-12, 0, 7, 305}
FloatSamples == {3, 4}
FieldNames == {"title", "fields"}

Scalars ==
    {PyStr(s) : s \in StrSamples} \cup {PyInt(n) : n \in IntSamples}
    \cup {PyFloat(h) : h \in FloatSamples} \cup {PyTrue, PyFalse, None}

SeqsUpTo(S, n) == UNION {[1..m -> S] : m \in 0..n}

DictsOver(K, S) == UNION {[D -> S] : D \in SUBSET K}

\* Lists and maps whose elements come from S.
Containers(S) ==
    {PyList(s) : s \in SeqsUpTo(S, MaxListLen)}
    \cup {PyDict(f) : f \in DictsOver(FieldNames, S)}

\* One more level of nesting around each value of S.
Wrap(S) ==
    {PyList(<<x>>) : x \in S} \cup {PyDict("title" :> x) : x \in S}
    \cup {PyList(<<PyInt(7), x>>) : x \in S}

Level1 == Scalars \cup Containers(Scalars)
HostValues == Level1 \cup Wrap(Level1) \cup Wrap(Wrap(Containers(Scalars)))

HostDocuments == {PyDict(key :> value) : key \in FieldNames, value \in HostValues}

-----------------------------------------------------------------------------
(* The gateway's environment: processes, document ids, samples *)

\* Concurrent web requests, each making FirestoreClient calls one after another.
Procs == {"p1", "p2"}

\* Calls made in a run, over all processes.
MaxCalls == 3

SumOver(f, S) ==
    LET RECURSIVE Sum(_)
        Sum(T) == IF T = {} THEN 0
                  ELSE LET x == CHOOSE x \in T : TRUE IN f[x] + Sum(T \ {x})
    IN Sum(S)


Collection == <<"j", "o", "b", "s">>

IdPlain == PyStr(<<"J", "1">>)
IdWeird == PyStr(<<"a", "-", "b">>)
DocIds == {IdPlain, IdWeird}

AlnumChars ==
    {Digits[i] : i \in 1..10}
    \cup {"a", "b", "c", "d", "e", "f", "g", "h", "i", "j", "k", "l", "m", "n",
          "o", "p", "q", "r", "s", "t", "u", "v", "w", "x", "y", "z"}
    \cup {"A", "B", "C", "D", "E", "F", "G", "H", "I", "J", "K", "L", "M", "N",
          "O", "P", "Q", "R", "S", "T", "U", "V", "W", "X", "Y", "Z"}

\* str.isalnum()
isalnum(s) == Len(s) >= 1 /\ \A i \in 1..Len(s) : s[i] \in AlnumChars

\* hashlib.md5(s.encode()).hexdigest(), tabulated on the ids of the model.
md5_hexdigest(s) ==
    CASE s = <<"a", "-", "b">> ->
            <<"8", "c", "a", "2", "e", "d", "5", "9", "0", "c", "f", "2", "e", "a",
              "2", "4", "0", "4", "f", "2", "e", "6", "7", "6", "4", "1", "b", "c",
              "d", "f", "5", "0">>
      [] s = <<"J", "1">> ->
            <<"4", "9", "b", "5", "9", "2", "6", "2", "5", "1", "b", "f", "c", "0",
              "e", "5", "1", "6", "6", "a", "1", "c", "4", "0", "7", "c", "c", "d",
              "1", "0", "5", "0">>
      [] s = <<"-", "1">> ->
            <<"6", "b", "b", "6", "1", "e", "3", "b", "7", "b", "c", "e", "0", "9",
              "3", "1", "d", "a", "5", "7", "4", "d", "1", "9", "d", "1", "d", "8",
              "2", "c", "8", "8">>
      [] s = <<"7">> ->
            <<"8", "f", "1", "4", "e", "4", "5", "f", "c", "e", "e", "a", "1", "6",
              "7", "a", "5", "a", "3", "6", "d", "e", "d", "d", "4", "b", "e", "a",
              "2", "5", "4", "3">>

api_key == PyStr(<<"A", "I", "z", "a", "S", "y", "D", "q", "S", "d", "n", "y", "0",
                   "v", "y", "x", "7", "p", "8", "q", "o", "J", "9", "R", "R", "z",
                   "C", "_", "c", "Q", "k", "2", "i", "a", "A", "W", "q", "C", "M">>)

\* f"firestore_{collection}_{ident}"
firestore_key(collection, ident) ==
    <<"f", "i", "r", "e", "s", "t", "o", "r", "e", "_">> \o collection \o <<"_">> \o ident

\* The key built from the id as given, never hashed.
get_cache_key_verbatim(collection, document_id) ==
    firestore_key(collection, py_str(document_id).v)

\* get_document's cache_key.
get_cache_key(collection, document_id) ==
    LET safe_document_id ==
            IF document_id.k # "str" \/ ~isalnum(document_id.v)
            THEN md5_hexdigest(py_str(document_id).v)
            ELSE document_id.v
    IN firestore_key(collection, safe_document_id)

\* The key set_document, update_document and delete_document delete.
write_cache_key(collection, document_id) ==
    firestore_key(collection, py_str(document_id).v)

CacheKeys ==
    {get_cache_key(Collection, id) : id \in DocIds}
    \cup {write_cache_key(Collection, id) : id \in DocIds}

NoEntry == [k |-> "no entry", v |-> 0]
NoDoc == [k |-> "no document", v |-> 0]
NoReq == [k |-> "no request", v |-> 0]
NoResp == [status |-> 0, body |-> None]
NoResult == [k |-> "no result", v |-> 0]
NoData == [k |-> "no data", v |-> 0]

\* cache.get(key): None when the key holds no entry.
cache_get(c, key) == IF c[key] = NoEntry THEN None ELSE c[key]

\* cache.set(key, value, timeout)
cache_set(c, key, value) == [c EXCEPT ![key] = value]

\* cache.delete(key)
cache_delete(c, key) == [c EXCEPT ![key] = NoEntry]

DataCook ==
    PyDict(("title" :> PyStr(<<"C", "o", "o", "k">>)) @@ ("is_avail" :> PyTrue)
           @@ ("tags" :> PyList(<<PyStr(<<"a", "m">>), PyInt(7)>>)))
DataSeven == PyDict("title" :> PyStr(<<"7">>))
SetSamples == {EmptyDict, DataCook}
UpdateSamples == {PyDict("is_avail" :> PyFalse)}

\* The gateway's variables while another part of the module runs.
GatewayUnused ==
    /\ remote = [id \in DocIds |-> NoDoc]
    /\ cache = [key \in CacheKeys |-> NoEntry]
    /\ pc = [p \in Procs |-> "idle"]
    /\ op = [p \in Procs |-> "none"]
    /\ doc = [p \in Procs |-> IdPlain]
    /\ use_cache = [p \in Procs |-> TRUE]
    /\ payload = [p \in Procs |-> None]
    /\ sent = [p \in Procs |-> NoReq]
    /\ resp = [p \in Procs |-> NoResp]
    /\ result = [p \in Procs |-> NoResult]
    /\ calls = [p \in Procs |-> 0]
    /\ settled = [id \in DocIds |-> FALSE]
    /\ written = [id \in DocIds |-> NoData]
    /\ fresh = [p \in Procs |-> FALSE]

CodecUnused ==
    /\ cpc = "unused"
    /\ cdoc = None
    /\ cwire = None
    /\ cout = None

WriteUnused ==
    /\ wpc = "unused"
    /\ wdata = None
    /\ wpath = "none"
    /\ wreq = NoReq
    /\ wresult = NoResult

QueryUnused ==
    /\ qpc = "unused"
    /\ qfilters = None
    /\ qquery = None
    /\ qresult = NoResult
    /\ qfn = "none"
    /\ qresp = NoResp

RunUnused ==
    /\ fpc = "unused"
    /\ fname = "none"
    /\ fargs = None
    /\ fenv = None
    /\ fout = NoResult

GigUnused ==
    /\ gpc = "unused"
    /\ gid = None
    /\ gresult = NoResult
    /\ gtries = 0
    /\ rows = {}
    /\ mirror = {}

-----------------------------------------------------------------------------
(* Codec runs: encode a host document as set_document does, decode it as   *)
(* get_document does.                                                      *)

CodecInit ==
    /\ cpc = "input"
    /\ cdoc \in HostDocuments
    /\ cwire = None
    /\ cout = None
    /\ GatewayUnused
    /\ WriteUnused
    /\ QueryUnused
    /\ RunUnused
    /\ GigUnused

CodecEncode ==
    /\ cpc = "input"
    /\ cwire' = PyDict("fields" :> _convert_to_firestore_format(cdoc))
    /\ cpc' = "encoded"
    /\ UNCHANGED <<cdoc, cout>>
    /\ UNCHANGED <<gatewayVars, writeVars, queryVars, runVars, gigVars>>

CodecDecode ==
    /\ cpc = "encoded"
    /\ cout' = _convert_firestore_document(cwire)
    /\ cpc' = "decoded"
    /\ UNCHANGED <<cdoc, cwire>>
    /\ UNCHANGED <<gatewayVars, writeVars, queryVars, runVars, gigVars>>

CodecNext == CodecEncode \/ CodecDecode

SpecCodec == CodecInit /\ [][CodecNext]_vars

\* C1: decoding the encoding of a host document gives back the document,
\* every value keeping its type (bool, int and float are distinct types).
C1_RoundTrip == cpc = "decoded" => cout = cdoc

C1_Witness ==
    /\ cpc = "decoded"
    /\ cdoc = PyDict("title" :> PyList(<<PyInt(7),
                 PyDict("title" :> PyList(<<PyTrue, PyFloat(4)>>))>>))
    /\ cout = cdoc

-----------------------------------------------------------------------------
(* The remote store, as far as the adapter can observe it *)

NoMask == {"<no mask>"}

\* The JSON documents a GET may answer for stored fields: a document whose
\* `fields` map is empty may come back without the `fields` key.
RemoteBodies(id, fields) ==
    IF fields = EmptyDict
    THEN {PyDict("name" :> id), PyDict(("name" :> id) @@ ("fields" :> fields))}
    ELSE {PyDict(("name" :> id) @@ ("fields" :> fields))}

\* PATCH: without a mask the document becomes the body's fields; with a mask
\* each masked field is set from the body or, when the body lacks it, removed.
RemotePatch(old, mask, fields) ==
    IF mask = NoMask THEN fields
    ELSE LET base == IF old = NoDoc THEN <<>> ELSE old.v
             keep == (DOMAIN base \ mask) \cup (mask \cap DOMAIN fields.v)
         IN PyDict([key \in keep |->
                        IF key \in mask THEN fields.v[key] ELSE base[key]])

\* What a request can meet: it is served, it is answered with a server error,
\* or requests.request raises (no connection, timeout).
Outcomes == {"served", "error", "exception"}

ErrorResponse == [status |-> 500, body |-> None]
NotFoundResponse == [status |-> 404, body |-> None]

-----------------------------------------------------------------------------
(* FirestoreClient *)

\* list(updates.keys()), the order left out.
PyKeys(S) == [k |-> "list of str", v |-> S]

\* The params with the key attached and a `token` left in.
_make_request_params_keeping_token(params) ==
    LET given == IF params = None THEN EmptyDict ELSE params
    IN PyDict(("key" :> api_key) @@ given.v)

\* _make_request, up to the dispatch: the params sent.
_make_request_params(params) ==
    LET given == IF params = None THEN EmptyDict ELSE params
        keyed == ("key" :> api_key) @@ given.v
    IN IF "token" \in DOMAIN keyed
       THEN PyDict([name \in DOMAIN keyed \ {"token"} |-> keyed[name]])
       ELSE PyDict(keyed)

Request(method, document_id, params, json_data) ==
    [method |-> method, document_id |-> document_id,
     params |-> _make_request_params(params), json |-> json_data]

\* The lookup skipped.
get_document_cached_never(c, cache_key, use_cache_arg) == None

\* get_document, lines 81-84, with the cache consulted whatever use_cache is.
get_document_cached_always(c, cache_key, use_cache_arg) == cache_get(c, cache_key)

\* get_document, lines 81-84: the cached result used, None to go on to the GET.
get_document_cached(c, cache_key, use_cache_arg) ==
    IF use_cache_arg THEN cache_get(c, cache_key) ELSE None

\* The response handled with the result cached whatever the status.
get_document_response_caching_all(c, cache_key, use_cache_arg, response) ==
    LET decoded == IF response.status = 200
                   THEN _convert_firestore_document(response.body) ELSE None
    IN [cache |-> IF use_cache_arg THEN cache_set(c, cache_key, decoded) ELSE c,
        result |-> decoded]

\* get_document, lines 91-103: the response handled.
get_document_response(c, cache_key, use_cache_arg, response) ==
    IF response.status = 200 THEN
        LET decoded == _convert_firestore_document(response.body) IN
        [cache |-> IF use_cache_arg THEN cache_set(c, cache_key, decoded) ELSE c,
         result |-> decoded]
    ELSE IF response.status = 404 THEN [cache |-> c, result |-> None]
    ELSE [cache |-> c, result |-> None]

\* The response handled with the cache entry deleted whatever the status.
write_response_deleting_always(c, collection, document_id, response) ==
    [cache |-> cache_delete(c, write_cache_key(collection, document_id)),
     result |-> IF response.status = 200 THEN PyTrue ELSE PyFalse]

\* set_document / update_document / delete_document: the response handled.
write_response(c, collection, document_id, response) ==
    IF response.status = 200
    THEN [cache |-> cache_delete(c, write_cache_key(collection, document_id)),
          result |-> PyTrue]
    ELSE [cache |-> c, result |-> PyFalse]

set_document_request(document_id, data_arg) ==
    Request("PATCH", document_id, None,
            PyDict("fields" :> _convert_to_firestore_format(data_arg)))

update_document_request(document_id, updates) ==
    Request("PATCH", document_id,
            PyDict("updateMask.fieldPaths" :> PyKeys(DOMAIN updates.v)),
            PyDict("fields" :> _convert_to_firestore_format(updates)))

WriteOps == {"set_document", "update_document", "delete_document"}

TotalCalls == SumOver(calls, Procs)

InFlight(p) == pc[p] \notin {"idle", "returned", "raised"}

WriteInFlight(id, except) ==
    \E q \in Procs \ {except} : InFlight(q) /\ op[q] \in WriteOps /\ doc[q] = id

GatewayInit ==
    /\ \E id \in DocIds, stored \in {NoDoc, _convert_to_firestore_format(DataSeven)} :
          /\ doc = [p \in Procs |-> id]
          /\ remote = [i \in DocIds |-> IF i = id THEN stored ELSE NoDoc]
    /\ cache = [key \in CacheKeys |-> NoEntry]
    /\ pc = [p \in Procs |-> "idle"]
    /\ op = [p \in Procs |-> "none"]
    /\ use_cache = [p \in Procs |-> TRUE]
    /\ payload = [p \in Procs |-> None]
    /\ sent = [p \in Procs |-> NoReq]
    /\ resp = [p \in Procs |-> NoResp]
    /\ result = [p \in Procs |-> NoResult]
    /\ calls = [p \in Procs |-> 0]
    /\ settled = [id \in DocIds |-> FALSE]
    /\ written = [id \in DocIds |-> NoData]
    /\ fresh = [p \in Procs |-> FALSE]
    /\ CodecUnused
    /\ WriteUnused
    /\ QueryUnused
    /\ RunUnused
    /\ GigUnused

\* A process enters a FirestoreClient method with its arguments bound.
Begin(p, method, uc, arg) ==
    /\ pc[p] \in {"idle", "returned", "raised"}
    /\ TotalCalls < MaxCalls
    /\ calls' = [calls EXCEPT ![p] = @ + 1]
    /\ op' = [op EXCEPT ![p] = method]
    /\ UNCHANGED doc
    /\ use_cache' = [use_cache EXCEPT ![p] = uc]
    /\ payload' = [payload EXCEPT ![p] = arg]
    /\ UNCHANGED <<codecVars, writeVars, queryVars, runVars, gigVars>>

\* The method returns: its data and the response body go out of scope.
Leave(p) ==
    /\ payload' = [payload EXCEPT ![p] = None]
    /\ resp' = [resp EXCEPT ![p] = [status |-> resp[p].status, body |-> None]]
    /\ UNCHANGED sent

\* The request leaves through _make_request; an exception it raises is not
\* caught by the method and reaches the caller.
Dispatch(p, method, id, served_remote, served_responses, outcome) ==
    /\ sent' = [sent EXCEPT ![p] = [method |-> method, document_id |-> id]]
    /\ CASE outcome = "served" ->
              /\ remote' = served_remote
              /\ \E response \in served_responses : resp' = [resp EXCEPT ![p] = response]
              /\ pc' = [pc EXCEPT ![p] = "response"]
         [] outcome = "error" ->
              /\ resp' = [resp EXCEPT ![p] = ErrorResponse]
              /\ pc' = [pc EXCEPT ![p] = "response"]
              /\ UNCHANGED remote
         [] outcome = "exception" ->
              /\ resp' = [resp EXCEPT ![p] = NoResp]
              /\ pc' = [pc EXCEPT ![p] = "raised"]
              /\ UNCHANGED remote

\* get_document is called: lines 75-84, up to the cache lookup.
CallGet(p) ==
    \E id \in {doc[p]}, uc \in BOOLEAN :
        /\ Begin(p, "get_document", uc, None)
        /\ LET cached_result ==
                   get_document_cached(cache, get_cache_key(Collection, id), uc)
           IN IF cached_result # None
              THEN /\ result' = [result EXCEPT ![p] = cached_result]
                   /\ pc' = [pc EXCEPT ![p] = "returned"]
              ELSE /\ result' = [result EXCEPT ![p] = NoResult]
                   /\ pc' = [pc EXCEPT ![p] = "request"]
        /\ fresh' = [fresh EXCEPT ![p] = settled[id] /\ ~WriteInFlight(id, p)]
        /\ sent' = [sent EXCEPT ![p] = NoReq]
        /\ resp' = [resp EXCEPT ![p] = NoResp]
        /\ UNCHANGED <<remote, cache, settled, written>>

\* get_document, lines 85-87: the GET.
GetRequest(p) ==
    /\ pc[p] = "request"
    /\ \E outcome \in Outcomes :
          Dispatch(p, "GET", doc[p], remote,
                   IF remote[doc[p]] = NoDoc THEN {NotFoundResponse}
                   ELSE {[status |-> 200, body |-> b] :
                            b \in RemoteBodies(doc[p], remote[doc[p]])},
                   outcome)
    /\ UNCHANGED <<cache, op, doc, use_cache, payload, result, calls>>
    /\ UNCHANGED histVars
    /\ UNCHANGED <<codecVars, writeVars, queryVars, runVars, gigVars>>

\* A write method is called and sends its request.
BeginWrite(p, method, id, arg) ==
    /\ Begin(p, method, TRUE, arg)
    /\ result' = [result EXCEPT ![p] = NoResult]
    /\ settled' = [settled EXCEPT ![id] = FALSE]
    /\ fresh' = [q \in Procs |-> IF q = p \/ doc[q] = id THEN FALSE ELSE fresh[q]]
    /\ UNCHANGED cache

\* set_document, lines 106-108.
CallSet(p) ==
    \E id \in {doc[p]}, arg \in SetSamples, outcome \in Outcomes :
        LET request == set_document_request(id, arg)
            stored == RemotePatch(remote[id], NoMask, request.json.v["fields"])
        IN /\ BeginWrite(p, "set_document", id, arg)
           /\ Dispatch(p, request.method, id, [remote EXCEPT ![id] = stored],
                       {[status |-> 200, body |-> b] : b \in RemoteBodies(id, stored)},
                       outcome)
           /\ written' = IF outcome = "served" THEN [written EXCEPT ![id] = arg]
                         ELSE written

\* update_document, lines 118-121.
CallUpdate(p) ==
    \E id \in {doc[p]}, arg \in UpdateSamples, outcome \in Outcomes :
        LET request == update_document_request(id, arg)
            stored == RemotePatch(remote[id],
                                  request.params.v["updateMask.fieldPaths"].v,
                                  request.json.v["fields"])
        IN /\ BeginWrite(p, "update_document", id, arg)
           /\ Dispatch(p, request.method, id, [remote EXCEPT ![id] = stored],
                       {[status |-> 200, body |-> b] : b \in RemoteBodies(id, stored)},
                       outcome)
           /\ written' = IF outcome = "served" THEN [written EXCEPT ![id] = NoData]
                         ELSE written

\* delete_document, lines 131-132.
CallDelete(p) ==
    \E id \in {doc[p]}, outcome \in Outcomes :
        /\ BeginWrite(p, "delete_document", id, None)
        /\ Dispatch(p, "DELETE", id, [remote EXCEPT ![id] = NoDoc],
                    {[status |-> 200, body |-> EmptyDict]}, outcome)
        /\ written' = IF outcome = "served" THEN [written EXCEPT ![id] = NoData]
                      ELSE written

\* get_document, lines 91-103.
GetResponse(p) ==
    /\ pc[p] = "response"
    /\ op[p] = "get_document"
    /\ LET handled == get_document_response(cache, get_cache_key(Collection, doc[p]),
                                            use_cache[p], resp[p])
       IN /\ cache' = handled.cache
          /\ result' = [result EXCEPT ![p] = handled.result]
    /\ pc' = [pc EXCEPT ![p] = "returned"]
    /\ Leave(p)
    /\ UNCHANGED <<remote, op, doc, use_cache, calls>>
    /\ UNCHANGED histVars
    /\ UNCHANGED <<codecVars, writeVars, queryVars, runVars, gigVars>>

\* set_document lines 109-115, update_document 122-128, delete_document 133-139.
WriteResponse(p) ==
    /\ pc[p] = "response"
    /\ op[p] \in WriteOps
    /\ LET handled == write_response(cache, Collection, doc[p], resp[p])
       IN /\ cache' = handled.cache
          /\ result' = [result EXCEPT ![p] = handled.result]
          /\ settled' = [settled EXCEPT ![doc[p]] =
                            /\ op[p] = "set_document"
                            /\ handled.result = PyTrue
                            /\ ~WriteInFlight(doc[p], p)]
    /\ pc' = [pc EXCEPT ![p] = "returned"]
    /\ Leave(p)
    /\ UNCHANGED <<remote, op, doc, use_cache, calls, written, fresh>>
    /\ UNCHANGED <<codecVars, writeVars, queryVars, runVars, gigVars>>

\* A cache entry reaches its timeout (cache_timeout=300).
CacheExpire ==
    /\ \E key \in CacheKeys :
          /\ cache[key] # NoEntry
          /\ cache' = cache_delete(cache, key)
    /\ UNCHANGED <<remote>>
    /\ UNCHANGED procVars
    /\ UNCHANGED histVars
    /\ UNCHANGED <<codecVars, writeVars, queryVars, runVars, gigVars>>

Next ==
    \/ \E p \in Procs : CallGet(p)
    \/ \E p \in Procs : GetRequest(p)
    \/ \E p \in Procs : GetResponse(p)
    \/ \E p \in Procs : CallSet(p)
    \/ \E p \in Procs : CallUpdate(p)
    \/ \E p \in Procs : CallDelete(p)
    \/ \E p \in Procs : WriteResponse(p)
    \/ CacheExpire

Spec == GatewayInit /\ [][Next]_vars


-----------------------------------------------------------------------------
(* Properties of the gateway *)

FailureValue(method) == IF method = "get_document" THEN None ELSE PyFalse

\* What an uncached get_document would return for the document right now.
RemoteDecoded(id) ==
    IF remote[id] = NoDoc THEN {None}
    ELSE {_convert_firestore_document(b) : b \in RemoteBodies(id, remote[id])}

\* C2: when set_document, update_document or delete_document returns True,
\* the cache entry that get_document uses for the same (collection, id) is
\* absent, for every id.
C2_WriteInvalidatesGetKey ==
    [][\A p \in Procs :
          (/\ pc[p] = "response"
           /\ op[p] \in WriteOps
           /\ pc'[p] = "returned"
           /\ result'[p] = PyTrue)
          => cache'[get_cache_key(Collection, doc[p])] = NoEntry]_vars

\* C3: a transport failure (a status other than 200 and 404, or an exception
\* of the HTTP call) ends every operation with its failure value, and no
\* exception reaches the caller.
C3_FailuresBecomeValues ==
    [][\A p \in Procs :
          /\ pc'[p] # "raised"
          /\ (/\ pc[p] = "response"
              /\ resp[p].status \notin {200, 404}
              /\ pc'[p] = "returned")
             => result'[p] = FailureValue(op[p])]_vars

\* C4: a get_document (use_cache=True) that starts after set_document returned
\* True, with no write on the document since, returns what the remote store
\* holds (the written data), whatever get_document calls were in flight
\* during the write.
C4_NoStaleReadAfterSet ==
    \A p \in Procs :
        (/\ pc[p] = "returned"
         /\ op[p] = "get_document"
         /\ use_cache[p]
         /\ fresh[p]
         /\ resp[p].status \in {0, 200})
        => result[p] \in RemoteDecoded(doc[p])

\* C6: get_document returns None on a 404 and on every other non-200 status
\* and writes nothing to the cache then; a value enters the cache only in the
\* step of a get_document with use_cache=True that handles a 200.
C6_CacheWrittenOnlyOn200 ==
    [][/\ \A p \in Procs :
             (/\ pc[p] = "response"
              /\ op[p] = "get_document"
              /\ resp[p].status # 200
              /\ pc'[p] = "returned")
             => (result'[p] = None /\ cache' = cache)
       /\ \A key \in CacheKeys :
             (cache'[key] # cache[key] /\ cache'[key] # NoEntry)
             => \E p \in Procs :
                   /\ pc[p] = "response"
                   /\ op[p] = "get_document"
                   /\ use_cache[p]
                   /\ resp[p].status = 200
                   /\ pc'[p] = "returned"
                   /\ key = get_cache_key(Collection, doc[p])]_vars

C6_Witness ==
    \E p \in Procs, q \in Procs :
        /\ pc[p] = "returned" /\ op[p] = "get_document" /\ use_cache[p]
        /\ resp[p].status = 500 /\ result[p] = None
        /\ pc[q] = "returned" /\ op[q] = "get_document" /\ use_cache[q]
        /\ resp[q].status = 404 /\ result[q] = None
        /\ cache[get_cache_key(Collection, doc[p])] = NoEntry

\* The step in which process p calls get_document with use_cache=True.
CallsCachedGet(p) ==
    calls'[p] # calls[p] /\ op'[p] = "get_document" /\ use_cache'[p]

\* C7 as stated: whenever the cache holds an entry for the key, a cached
\* get_document returns that entry and sends no HTTP request.
C7_AnyEntryIsReturned ==
    [][\A p \in Procs :
          (CallsCachedGet(p) /\ cache[get_cache_key(Collection, doc[p])] # NoEntry)
          => /\ pc'[p] = "returned"
             /\ result'[p] = cache[get_cache_key(Collection, doc[p])]
             /\ sent'[p] = NoReq]_vars

\* C7 (amended): whenever the cache holds an entry other than None for the
\* key, a cached get_document returns that entry and sends no HTTP request.
C7_NonNoneEntryIsReturned ==
    [][\A p \in Procs :
          (CallsCachedGet(p)
           /\ cache[get_cache_key(Collection, doc[p])] \notin {NoEntry, None})
          => /\ pc'[p] = "returned"
             /\ result'[p] = cache[get_cache_key(Collection, doc[p])]
             /\ sent'[p] = NoReq]_vars

C7_Witness ==
    \E p \in Procs :
        /\ pc[p] = "returned" /\ op[p] = "get_document" /\ use_cache[p]
        /\ sent[p] = NoReq
        /\ result[p] = cache[get_cache_key(Collection, doc[p])]
        /\ result[p] = DataCook

\* An uncached get_document that began right after a set_document returned
\* True (no write on the document since) and was answered 200.
ReadBackAfterSet(p) ==
    /\ pc[p] = "returned"
    /\ op[p] = "get_document"
    /\ ~use_cache[p]
    /\ fresh[p]
    /\ resp[p].status = 200
    /\ written[doc[p]] # NoData

\* C8 as stated: set_document(collection, id, data) followed immediately by
\* get_document(collection, id, use_cache=False) returns data.
C8_ReadBackEqualsData ==
    \A p \in Procs : ReadBackAfterSet(p) => result[p] = written[doc[p]]

\* C8 (amended): the same, for data with at least one field.
C8_ReadBackEqualsNonEmptyData ==
    \A p \in Procs :
        (ReadBackAfterSet(p) /\ written[doc[p]] # EmptyDict)
        => result[p] = written[doc[p]]

C8_Witness ==
    \E p \in Procs : ReadBackAfterSet(p) /\ result[p] = DataCook

\* C17: set_document, update_document and delete_document return True exactly
\* when the response status is 200 and False for every other status; the
\* cache delete (of the key the write builds) is performed exactly in the
\* True case, and on False the cache is left unchanged.
C17_TrueIff200AndDeleteIffTrue ==
    [][\A p \in Procs :
          (pc[p] = "response" /\ op[p] \in WriteOps /\ pc'[p] = "returned")
          => /\ result'[p] \in {PyTrue, PyFalse}
             /\ result'[p] = PyTrue <=> resp[p].status = 200
             /\ result'[p] = PyTrue
                  => cache' = [key \in CacheKeys |->
                                  IF key = firestore_key(Collection, doc[p].v)
                                  THEN NoEntry ELSE cache[key]]
             /\ result'[p] = PyFalse => cache' = cache]_vars

C17_Witness ==
    \E p \in Procs, q \in Procs :
        /\ pc[p] = "returned" /\ op[p] \in WriteOps
        /\ resp[p].status = 200 /\ result[p] = PyTrue
        /\ pc[q] = "returned" /\ op[q] \in WriteOps
        /\ resp[q].status = 500 /\ result[q] = PyFalse
        /\ cache[firestore_key(Collection, doc[q].v)] # NoEntry

\* C22: get_document called with use_cache=False neither reads nor writes the
\* cache: the call goes to the remote store whatever the cache holds, every
\* step of the call leaves the cache as it is for every response status, and
\* the value returned is the decoded response on 200 and None otherwise.
C22_UncachedGetLeavesCache ==
    [][\A p \in Procs :
          /\ (calls'[p] # calls[p] /\ op'[p] = "get_document" /\ ~use_cache'[p])
             => (pc'[p] = "request" /\ cache' = cache)
          /\ (op[p] = "get_document" /\ ~use_cache[p] /\ pc'[p] # pc[p]
              /\ pc[p] \in {"request", "response"})
             => cache' = cache
          /\ (op[p] = "get_document" /\ ~use_cache[p]
              /\ pc[p] = "response" /\ pc'[p] = "returned")
             => result'[p] = IF resp[p].status = 200
                             THEN _convert_firestore_document(resp[p].body)
                             ELSE None]_vars

\* An uncached read answered 200 that returned something else than the entry
\* the cache holds for its document.
C22_Witness ==
    \E p \in Procs :
        /\ pc[p] = "returned" /\ op[p] = "get_document" /\ ~use_cache[p]
        /\ resp[p].status = 200
        /\ cache[get_cache_key(Collection, doc[p])] \notin {NoEntry, None}
        /\ result[p] # cache[get_cache_key(Collection, doc[p])]



-----------------------------------------------------------------------------
(* The write paths, each run alone on one input: the two FirestoreClient    *)
(* methods and the module-level set_firestore_document and                 *)
(* update_firestore_document.                                              *)

\* {k: v for k, v in d.items() if k != 'token'}
without_token(d) == PyDict([key \in DOMAIN d.v \ {"token"} |-> d.v[key]])

\* The isinstance chain of set_firestore_document (lines 359-368) and of
\* update_firestore_document (lines 317-326) for one value; NoEntry for a
\* value no branch takes.
module_field(value) ==
    IF value.k = "str" THEN PyDict("stringValue" :> value)
    ELSE IF IsInstanceInt(value) THEN PyDict("integerValue" :> py_str(value))
    ELSE IF value.k = "float" THEN PyDict("doubleValue" :> value)
    ELSE IF value.k = "bool" THEN PyDict("booleanValue" :> value)
    ELSE IF value = None THEN PyDict("nullValue" :> None)
    ELSE NoEntry

\* firestore_fields as the loop leaves it.
module_fields(d) ==
    PyDict([key \in {name \in DOMAIN d.v : module_field(d.v[name]) # NoEntry}
                |-> module_field(d.v[key])])

update_firestore_document_request(document_id, updates_arg) ==
    LET updates == without_token(updates_arg) IN
    [method |-> "PATCH", document_id |-> document_id,
     params |-> PyDict(("key" :> api_key)
                       @@ ("updateMask.fieldPaths" :> PyKeys(DOMAIN updates.v))),
     json |-> PyDict("fields" :> module_fields(updates))]

set_firestore_document_request(document_id, data_arg) ==
    [method |-> "PATCH", document_id |-> document_id,
     params |-> PyDict("key" :> api_key),
     json |-> PyDict("fields" :> module_fields(without_token(data_arg)))]

WriteValues ==
    Scalars \cup {PyList(<<>>), PyList(<<PyStr(<<"a", "m">>), PyTrue>>),
                  PyDict("app" :> PyFalse)}

WriteInputs == {PyDict(f) : f \in DictsOver({"is_avail", "tags", "token"}, WriteValues)}

WriteInit ==
    /\ wpc = "input"
    /\ wdata \in WriteInputs
    /\ wpath = "none"
    /\ wreq = NoReq
    /\ wresult = NoResult
    /\ GatewayUnused
    /\ CodecUnused
    /\ QueryUnused
    /\ RunUnused
    /\ GigUnused

\* The request is sent; the store applies it when it serves it.
WriteRun(path, request, mask, outcome, on_exception) ==
    /\ wpc = "input"
    /\ wpc' = "done"
    /\ wpath' = path
    /\ wreq' = request
    /\ remote' = IF outcome = "served"
                 THEN [remote EXCEPT ![IdPlain] =
                          RemotePatch(remote[IdPlain], mask, request.json.v["fields"])]
                 ELSE remote
    /\ wresult' = CASE outcome = "served" -> PyTrue
                    [] outcome = "error" -> PyFalse
                    [] outcome = "exception" -> on_exception
    /\ UNCHANGED <<wdata, cache>>
    /\ UNCHANGED procVars
    /\ UNCHANGED histVars
    /\ UNCHANGED <<codecVars, queryVars, runVars, gigVars>>

\* FirestoreClient.set_document
ClassSet ==
    \E outcome \in Outcomes :
        WriteRun("set_document", set_document_request(IdPlain, wdata), NoMask,
                 outcome, Raised)

\* FirestoreClient.update_document
ClassUpdate ==
    \E outcome \in Outcomes :
        WriteRun("update_document", update_document_request(IdPlain, wdata),
                 DOMAIN wdata.v, outcome, Raised)

\* set_firestore_document
ModuleSet ==
    \E outcome \in Outcomes :
        WriteRun("set_firestore_document",
                 set_firestore_document_request(IdPlain, wdata), NoMask,
                 outcome, PyFalse)

\* update_firestore_document
ModuleUpdate ==
    \E outcome \in Outcomes :
        WriteRun("update_firestore_document",
                 update_firestore_document_request(IdPlain, wdata),
                 DOMAIN without_token(wdata).v, outcome, PyFalse)

WriteNext == ClassSet \/ ClassUpdate \/ ModuleSet \/ ModuleUpdate

SpecWrite == WriteInit /\ [][WriteNext]_vars

SentFields == wreq.json.v["fields"].v

\* C9: an update sends a field mask whose names are exactly the names in the
\* body's `fields`, and these are exactly the caller's update keys.
C9_MaskEqualsBodyEqualsKeys ==
    (wpc = "done" /\ wpath \in {"update_document", "update_firestore_document"})
    => /\ wreq.params.v["updateMask.fieldPaths"].v = DOMAIN SentFields
       /\ DOMAIN SentFields = DOMAIN wdata.v

\* C10: on every write path a bool field value is sent as a booleanValue,
\* never as an integerValue or a stringValue.
C10_BoolSentAsBoolean ==
    wpc = "done"
    => \A key \in DOMAIN wdata.v \cap DOMAIN SentFields :
          wdata.v[key].k = "bool"
          => SentFields[key] = PyDict("booleanValue" :> wdata.v[key])


-----------------------------------------------------------------------------
(* query_firestore_collection_with_multiple_filters, run alone on one list  *)
(* of filters.                                                              *)

\* The decoder with None for a value without a recognized tag.
RECURSIVE convert_firestore_value_strict(_)
convert_firestore_value_strict(value) ==
    IF HasKey(value, "arrayValue") THEN
        LET items == DictGet(value.v["arrayValue"], "values", PyList(<<>>)).v IN
        PyList([i \in 1..Len(items) |-> convert_firestore_value_strict(items[i])])
    ELSE IF DOMAIN value.v \cap {"stringValue", "integerValue", "doubleValue",
                                 "booleanValue", "nullValue", "timestampValue",
                                 "mapValue"} = {}
    THEN None
    ELSE from_firestore_convert_value(value)

\* convert_firestore_value (module level)
RECURSIVE convert_firestore_value(_)
convert_firestore_value(value) ==
    IF HasKey(value, "stringValue") THEN value.v["stringValue"]
    ELSE IF HasKey(value, "integerValue") THEN py_int(value.v["integerValue"])
    ELSE IF HasKey(value, "doubleValue") THEN py_float(value.v["doubleValue"])
    ELSE IF HasKey(value, "booleanValue") THEN value.v["booleanValue"]
    ELSE IF HasKey(value, "nullValue") THEN None
    ELSE IF HasKey(value, "timestampValue") THEN value.v["timestampValue"]
    ELSE IF HasKey(value, "arrayValue") THEN
        LET items == DictGet(value.v["arrayValue"], "values", PyList(<<>>)).v IN
        PyList([i \in 1..Len(items) |-> convert_firestore_value(items[i])])
    ELSE IF HasKey(value, "mapValue") THEN
        LET fields == DictGet(value.v["mapValue"], "fields", EmptyDict).v IN
        PyDict([key \in DOMAIN fields |-> convert_firestore_value(fields[key])])
    ELSE value

\* convert_firestore_document (module level)
convert_firestore_document(firestore_doc) ==
    IF ~HasKey(firestore_doc, "fields") THEN None
    ELSE LET fields == firestore_doc.v["fields"].v IN
         PyDict([key \in DOMAIN fields |-> convert_firestore_value(fields[key])])

RECURSIVE convert_value_to_firestore_format(_)
convert_value_to_firestore_format(value) ==
    IF value = PyTrue THEN PyDict("booleanValue" :> PyTrue)
    ELSE IF value = PyFalse THEN PyDict("booleanValue" :> PyFalse)
    ELSE IF value.k = "str" THEN PyDict("stringValue" :> value)
    ELSE IF IsInstanceInt(value) THEN PyDict("integerValue" :> py_str(value))
    ELSE IF value.k = "float" THEN PyDict("doubleValue" :> value)
    ELSE IF value.k = "list" THEN
        PyDict("arrayValue" :>
            PyDict("values" :>
                PyList([i \in 1..Len(value.v) |->
                            convert_value_to_firestore_format(value.v[i])])))
    ELSE IF value = None THEN PyDict("nullValue" :> None)
    ELSE PyDict("stringValue" :> py_str(value))

\* The fieldFilter the loop appends for one filter_item.
field_filter(filter_item) ==
    PyDict("fieldFilter" :>
        PyDict(("field" :> PyDict("fieldPath" :> filter_item.v["field"]))
               @@ ("op" :> filter_item.v["operator"])
               @@ ("value" :> convert_value_to_firestore_format(filter_item.v["value"]))))

where_clause_always_composite(where_conditions) ==
    PyDict("compositeFilter" :>
        PyDict(("op" :> PyStr(<<"A", "N", "D">>))
               @@ ("filters" :> PyList(where_conditions))))

\* where_clause from where_conditions
where_clause(where_conditions) ==
    IF Len(where_conditions) = 1 THEN where_conditions[1]
    ELSE PyDict("compositeFilter" :>
            PyDict(("op" :> PyStr(<<"A", "N", "D">>))
                   @@ ("filters" :> PyList(where_conditions))))

structured_query(collection, filters) ==
    LET where_conditions == [i \in 1..Len(filters.v) |-> field_filter(filters.v[i])] IN
    PyDict("structuredQuery" :>
        PyDict(("from" :> PyList(<<PyDict("collectionId" :> collection)>>))
               @@ ("where" :> where_clause(where_conditions))))

\* The loop without its `document` test: an item without one yields None.
RECURSIVE query_results_unfiltered(_)
query_results_unfiltered(items) ==
    IF items = <<>> THEN <<>>
    ELSE <<IF HasKey(Head(items), "document")
           THEN convert_firestore_document(Head(items).v["document"])
           ELSE None>> \o query_results_unfiltered(Tail(items))

\* results of the 200 branch: one entry per item that has a `document`.
RECURSIVE query_results(_)
query_results(items) ==
    IF items = <<>> THEN <<>>
    ELSE (IF HasKey(Head(items), "document")
          THEN <<convert_firestore_document(Head(items).v["document"])>>
          ELSE <<>>) \o query_results(Tail(items))

MaxFilters == 2

MaxItems == 2

FilterFields == {PyStr(<<"s", "t", "a", "t", "e">>), PyStr(<<"o", "k">>)}
FilterOperators == {PyStr(<<"E", "Q", "U", "A", "L">>), PyStr(<<"I", "N">>)}
FilterValues ==
    {PyTrue, PyInt(7), PyList(<<PyStr(<<"F", "L">>), PyFalse>>),
     PyDict("app" :> PyFalse), PyFloat(3)}

FilterItems ==
    {PyDict(("field" :> f) @@ ("operator" :> o) @@ ("value" :> x)) :
        f \in FilterFields, o \in FilterOperators, x \in FilterValues}

FilterLists == {PyList(s) : s \in SeqsUpTo(FilterItems, MaxFilters)}

\* Items of a runQuery response: a document with fields, one without, and
\* an item that carries no document.
QueryItems ==
    {PyDict("document" :> PyDict(("name" :> IdPlain)
                                 @@ ("fields" :> _convert_to_firestore_format(DataSeven)))),
     PyDict("document" :> PyDict("name" :> IdPlain)),
     PyDict("readTime" :> PyStr(<<"t">>))}

QueryResponses == {PyList(s) : s \in SeqsUpTo(QueryItems, MaxItems)}

\* What requests.post gives: a 200 with a JSON array, another status, or an
\* exception.
QueryAnswers ==
    {[status |-> 200, body |-> data] : data \in QueryResponses}
    \cup {ErrorResponse, Raised}

\* The try block of the query functions (lines 666-680, 561-575, 790-804).
query_returned(response) ==
    IF response = Raised THEN PyList(<<>>)
    ELSE IF response.status = 200 THEN PyList(query_results(response.body.v))
    ELSE PyList(<<>>)

\* The query of query_firestore_collection (lines 548-559).
single_query(collection, field, operator, value) ==
    PyDict("structuredQuery" :>
        PyDict(("from" :> PyList(<<PyDict("collectionId" :> collection)>>))
               @@ ("where" :>
                    PyDict("fieldFilter" :>
                        PyDict(("field" :> PyDict("fieldPath" :> field))
                               @@ ("op" :> operator)
                               @@ ("value" :> convert_value_to_firestore_format(value)))))))

ARRAY_CONTAINS ==
    PyStr(<<"A", "R", "R", "A", "Y", "_", "C", "O", "N", "T", "A", "I", "N", "S">>)

QueryInit ==
    /\ qpc = "input"
    /\ qfilters \in FilterLists
    /\ qquery = None
    /\ qresult = NoResult
    /\ qfn = "none"
    /\ qresp = NoResp
    /\ GatewayUnused
    /\ CodecUnused
    /\ WriteUnused
    /\ RunUnused
    /\ GigUnused

QueryDone(fn, query, response) ==
    /\ qpc = "input"
    /\ qpc' = "done"
    /\ qfn' = fn
    /\ qquery' = query
    /\ qresp' = response
    /\ qresult' = query_returned(response)
    /\ UNCHANGED <<qfilters, gatewayVars, codecVars, writeVars, runVars, gigVars>>

MultipleFilters(response) ==
    QueryDone("query_firestore_collection_with_multiple_filters",
              structured_query(PyStr(Collection), qfilters), response)

\* query_firestore_collection_with_multiple_filters, status 200
QueryServed ==
    \E data \in QueryResponses : MultipleFilters([status |-> 200, body |-> data])

\* query_firestore_collection_with_multiple_filters, any other status
QueryError == MultipleFilters(ErrorResponse)

\* query_firestore_collection_with_multiple_filters, requests.post raises
QueryException == MultipleFilters(Raised)

\* query_firestore_collection, called with the one filter of the list
QuerySingle ==
    /\ Len(qfilters.v) = 1
    /\ \E response \in QueryAnswers :
          QueryDone("query_firestore_collection",
                    single_query(PyStr(Collection), qfilters.v[1].v["field"],
                                 qfilters.v[1].v["operator"], qfilters.v[1].v["value"]),
                    response)

\* query_firestore_collection_with_array_contains, called with the field
\* and value of the one filter of the list
QueryArrayContains ==
    /\ Len(qfilters.v) = 1
    /\ \E response \in QueryAnswers :
          QueryDone("query_firestore_collection_with_array_contains",
                    single_query(PyStr(Collection), qfilters.v[1].v["field"],
                                 ARRAY_CONTAINS, qfilters.v[1].v["value"]),
                    response)

QueryNext ==
    \/ QueryServed
    \/ QueryError
    \/ QueryException
    \/ QuerySingle
    \/ QueryArrayContains

SpecQuery == QueryInit /\ [][QueryNext]_vars

QueryWhere == qquery.v["structuredQuery"].v["where"]

IsFieldFilterOf(clause, filter_item) ==
    /\ DOMAIN clause.v = {"fieldFilter"}
    /\ clause.v["fieldFilter"].v["field"] = PyDict("fieldPath" :> filter_item.v["field"])
    /\ clause.v["fieldFilter"].v["op"] = filter_item.v["operator"]
    /\ clause.v["fieldFilter"].v["value"]
          = convert_value_to_firestore_format(filter_item.v["value"])

\* C5: for exactly one filter the `where` is that bare fieldFilter, with no
\* compositeFilter wrapper; for two or more filters it is a compositeFilter
\* with op AND whose filters are one fieldFilter per caller filter, in the
\* caller's order.
C5_WhereShape ==
    (qpc = "done" /\ qfn = "query_firestore_collection_with_multiple_filters")
    => LET n == Len(qfilters.v) IN
       /\ n = 1 => IsFieldFilterOf(QueryWhere, qfilters.v[1])
       /\ n >= 2 =>
            /\ DOMAIN QueryWhere.v = {"compositeFilter"}
            /\ QueryWhere.v["compositeFilter"].v["op"] = PyStr(<<"A", "N", "D">>)
            /\ Len(QueryWhere.v["compositeFilter"].v["filters"].v) = n
            /\ \A i \in 1..n :
                  IsFieldFilterOf(QueryWhere.v["compositeFilter"].v["filters"].v[i],
                                  qfilters.v[i])

C5_Witness ==
    /\ qpc = "done"
    /\ qfn = "query_firestore_collection_with_multiple_filters"
    /\ Len(qfilters.v) = 2
    /\ qfilters.v[1] # qfilters.v[2]
    /\ HasKey(QueryWhere, "compositeFilter")




\* The wire values the query placed in its fieldFilters, and the caller's
\* values they were built from.
QueryFilterValues ==
    IF HasKey(QueryWhere, "fieldFilter")
    THEN <<QueryWhere.v["fieldFilter"].v["value"]>>
    ELSE LET sent_filters == QueryWhere.v["compositeFilter"].v["filters"].v IN
         [i \in 1..Len(sent_filters) |-> sent_filters[i].v["fieldFilter"].v["value"]]

\* C11: the value placed in a query's fieldFilter is what the document
\* encoder (FirestoreClient._convert_to_firestore_format) returns for the
\* caller's value, for strings, integers, floats, booleans, None, lists and
\* maps.
C11_FilterValueIsDocumentEncoding ==
    qpc = "done"
    => \A i \in 1..Len(qfilters.v) :
          QueryFilterValues[i]
             = _convert_to_firestore_format(
                  PyDict("title" :> qfilters.v[i].v["value"])).v["title"]

\* C18: for a 200 response the query functions return one decoded document
\* per response item that has a `document` key, in response order, and skip
\* the other items; for any other status or an exception they return the
\* empty list.
C18_OneResultPerDocumentItem ==
    qpc = "done"
    => IF qresp # Raised /\ qresp.status = 200
       THEN LET with_document ==
                    SelectSeq(qresp.body.v, LAMBDA item : "document" \in DOMAIN item.v)
            IN /\ Len(qresult.v) = Len(with_document)
               /\ \A i \in 1..Len(with_document) :
                     qresult.v[i] = convert_firestore_document(with_document[i].v["document"])
       ELSE qresult = PyList(<<>>)

C18_Witness ==
    /\ qpc = "done"
    /\ qfn = "query_firestore_collection"
    /\ qresp # Raised
    /\ qresp.status = 200
    /\ Len(qresp.body.v) = 2
    /\ ~HasKey(qresp.body.v[1], "document")
    /\ HasKey(qresp.body.v[2], "document")
    /\ qresult = PyList(<<DataSeven>>)


-----------------------------------------------------------------------------
(* FirestoreClient._make_request, run alone on one method and params.      *)

RequestParams ==
    {None}
    \cup {PyDict(f) : f \in DictsOver({"token", "key", "pageSize"},
                                     {PyStr(<<"x">>), PyInt(5)})}

RequestInit ==
    /\ fpc = "input"
    /\ fname = "none"
    /\ fargs \in [method : {"GET", "PATCH", "DELETE"}, params : RequestParams]
    /\ fenv = None
    /\ fout = NoResult
    /\ GatewayUnused
    /\ CodecUnused
    /\ WriteUnused
    /\ QueryUnused
    /\ GigUnused

\* The request goes out and the response is returned, or requests.request
\* raises and the exception is raised again.
MakeRequest ==
    /\ fpc = "input"
    /\ fpc' = "done"
    /\ fname' = "_make_request"
    /\ \E answer \in {[status |-> 200, body |-> EmptyDict], NotFoundResponse,
                      ErrorResponse, Raised} :
          /\ fenv' = [request |-> Request(fargs.method, IdPlain, fargs.params, None),
                      answer |-> answer]
          /\ fout' = answer
    /\ UNCHANGED <<fargs, gatewayVars, codecVars, writeVars, queryVars, gigVars>>

RequestNext == MakeRequest

SpecRequest == RequestInit /\ [][RequestNext]_vars

\* C14: every request dispatched through _make_request carries the shared
\* API key as its `key` query parameter and no `token` query parameter,
\* whatever params the caller passed in.
C14_KeyAttachedTokenStripped ==
    (fpc = "done" /\ fname = "_make_request")
    => /\ "key" \in DOMAIN fenv.request.params.v
       /\ fenv.request.params.v["key"] = api_key
       /\ "token" \notin DOMAIN fenv.request.params.v

C14_Witness ==
    /\ fpc = "done"
    /\ fname = "_make_request"
    /\ fargs.params = PyDict(("token" :> PyStr(<<"x">>)) @@ ("key" :> PyInt(5))
                             @@ ("pageSize" :> PyInt(5)))
    /\ fenv.request.params = PyDict(("key" :> api_key) @@ ("pageSize" :> PyInt(5)))


-----------------------------------------------------------------------------
(* The cache key of get_document, computed for two calls.                  *)

KeyCollections == {Collection, <<"c">>}

\* Ids of each kind: alphanumeric strings, other strings, and ints.
KeyIds ==
    {IdPlain, IdWeird, PyStr(<<"7">>), PyStr(<<"-", "1">>), PyInt(7), PyInt(-1)}

KeyCalls == [collection : KeyCollections, document_id : KeyIds]

KeyInit ==
    /\ fpc = "input"
    /\ fname = "none"
    /\ fargs \in [first : KeyCalls, second : KeyCalls]
    /\ fenv = None
    /\ fout = NoResult
    /\ GatewayUnused
    /\ CodecUnused
    /\ WriteUnused
    /\ QueryUnused
    /\ GigUnused

\* Lines 75-80 of get_document in each of the two calls.
KeyDerive ==
    /\ fpc = "input"
    /\ fpc' = "done"
    /\ fname' = "get_document"
    /\ fout' = [first |-> get_cache_key(fargs.first.collection, fargs.first.document_id),
                second |-> get_cache_key(fargs.second.collection,
                                         fargs.second.document_id)]
    /\ UNCHANGED <<fargs, fenv, gatewayVars, codecVars, writeVars, queryVars, gigVars>>

KeyNext == KeyDerive

SpecKey == KeyInit /\ [][KeyNext]_vars

PlainAlnum(id) == id.k = "str" /\ isalnum(id.v)

\* The key is the collection followed by the id itself (alphanumeric string)
\* or by the MD5 hex digest of its string form (any other id), and equal
\* arguments give equal keys.
KeyIsDerived ==
    /\ \A call \in {"first", "second"} :
          fout[call] =
             firestore_key(fargs[call].collection,
                           IF PlainAlnum(fargs[call].document_id)
                           THEN fargs[call].document_id.v
                           ELSE md5_hexdigest(py_str(fargs[call].document_id).v))
    /\ fargs.first = fargs.second => fout.first = fout.second

BothNotAlnum ==
    /\ fargs.first.collection = fargs.second.collection
    /\ ~PlainAlnum(fargs.first.document_id)
    /\ ~PlainAlnum(fargs.second.document_id)

\* C12 as stated: the key is derived as above, and two different
\* non-alphanumeric ids in the same collection use different keys.
C12_DifferentIdsDifferentKeys ==
    (fpc = "done" /\ fname = "get_document")
    => /\ KeyIsDerived
       /\ (BothNotAlnum /\ fargs.first.document_id # fargs.second.document_id)
          => fout.first # fout.second

\* C12 (amended): the key is derived as above, and two non-alphanumeric ids
\* in the same collection whose string forms differ use different keys.
C12_DifferentStringFormsDifferentKeys ==
    (fpc = "done" /\ fname = "get_document")
    => /\ KeyIsDerived
       /\ (BothNotAlnum /\ py_str(fargs.first.document_id)
                              # py_str(fargs.second.document_id))
          => fout.first # fout.second

C12_Witness ==
    /\ fpc = "done"
    /\ fname = "get_document"
    /\ fargs.first = [collection |-> Collection, document_id |-> IdWeird]
    /\ fargs.second = [collection |-> Collection, document_id |-> PyInt(-1)]
    /\ fout.first # fout.second
    /\ fout.second = firestore_key(Collection, md5_hexdigest(<<"-", "1">>))


-----------------------------------------------------------------------------
(* The two document decoders, run on one wire document.                    *)

\* Wire values with one recognized tag and the payload Firestore gives it.
TaggedScalars ==
    {PyDict("stringValue" :> PyStr(<<"7">>)),
     PyDict("integerValue" :> PyStr(<<"7">>)),
     PyDict("integerValue" :> PyStr(<<"-", "1", "2">>)),
     PyDict("doubleValue" :> PyFloat(3)),
     PyDict("doubleValue" :> PyInt(2)),
     PyDict("booleanValue" :> PyTrue),
     PyDict("nullValue" :> None),
     PyDict("timestampValue" :> PyStr(<<"2", "0", "2", "4">>))}

\* Wire values without a recognized tag.
Untagged ==
    {EmptyDict,
     PyDict("referenceValue" :> PyStr(<<"j", "o", "b", "s", "/", "J", "1">>)),
     PyDict("geoPointValue" :> PyDict("latitude" :> PyInt(7)))}

\* arrayValue and mapValue around the values of S, and without their
\* `values` / `fields`.
TaggedContainers(S) ==
    {PyDict("arrayValue" :> EmptyDict), PyDict("mapValue" :> EmptyDict)}
    \cup {PyDict("arrayValue" :> PyDict("values" :> PyList(<<x>>))) : x \in S}
    \cup {PyDict("arrayValue" :> PyDict("values" :> PyList(<<PyDict("nullValue" :> None), x>>))) :
             x \in S}
    \cup {PyDict("mapValue" :> PyDict("fields" :> PyDict("title" :> x))) : x \in S}
    \cup {PyDict("mapValue" :> PyDict("fields" :> EmptyDict))}

WireLevel0 == TaggedScalars \cup Untagged
WireValues == WireLevel0 \cup TaggedContainers(WireLevel0 \cup TaggedContainers(Untagged))

WireDocuments ==
    {EmptyDict, PyDict("name" :> IdPlain), PyDict("fields" :> EmptyDict)}
    \cup {PyDict(("name" :> IdPlain) @@ ("fields" :> PyDict("title" :> x))) : x \in WireValues}
    \cup {PyDict("fields" :> PyDict(("title" :> x) @@ ("tags" :> PyDict("mapValue" :> EmptyDict)))) :
             x \in WireValues}

DecodeInit ==
    /\ fpc = "input"
    /\ fname = "none"
    /\ fargs \in WireDocuments
    /\ fenv = None
    /\ fout = [class |-> NoResult, module |-> NoResult]
    /\ GatewayUnused
    /\ CodecUnused
    /\ WriteUnused
    /\ QueryUnused
    /\ GigUnused

DecodeRun(decoder, decoded) ==
    /\ fout[decoder] = NoResult
    /\ fout' = [fout EXCEPT ![decoder] = decoded]
    /\ fname' = decoder
    /\ fpc' = IF \A other \in {"class", "module"} \ {decoder} : fout[other] # NoResult
              THEN "done" ELSE "input"
    /\ UNCHANGED <<fargs, fenv, gatewayVars, codecVars, writeVars, queryVars, gigVars>>

\* FirestoreClient._convert_firestore_document(firestore_doc)
DecodeClass == DecodeRun("class", _convert_firestore_document(fargs))

\* convert_firestore_document(firestore_doc)
DecodeModule == DecodeRun("module", convert_firestore_document(fargs))

DecodeNext == DecodeClass \/ DecodeModule

SpecDecode == DecodeInit /\ [][DecodeNext]_vars

\* C13: each document decoder returns None for a wire document without a
\* `fields` key, and for a wire document with one a map with the same keys
\* (the empty map when `fields` is empty).
C13_NoneWithoutFieldsMapWithFields ==
    \A decoder \in {"class", "module"} :
        fout[decoder] # NoResult
        => IF "fields" \notin DOMAIN fargs.v
           THEN fout[decoder] = None
           ELSE /\ fout[decoder].k = "dict"
                /\ DOMAIN fout[decoder].v = DOMAIN fargs.v["fields"].v
                /\ fargs.v["fields"] = EmptyDict => fout[decoder] = EmptyDict

C13_Witness ==
    /\ fpc = "done"
    /\ fargs = PyDict("fields" :> EmptyDict)
    /\ fout = [class |-> EmptyDict, module |-> EmptyDict]

RecognizedTags ==
    {"stringValue", "integerValue", "doubleValue", "booleanValue", "nullValue",
     "timestampValue", "arrayValue", "mapValue"}

\* An exception somewhere in a decoded value.
RECURSIVE HasFailure(_)
HasFailure(value) ==
    \/ value = Raised
    \/ value.k = "list" /\ \E i \in 1..Len(value.v) : HasFailure(value.v[i])
    \/ value.k = "dict" /\ \E key \in DOMAIN value.v : HasFailure(value.v[key])

\* C19: the value decoder fails on no wire value: a value without a
\* recognized tag is returned unchanged, an arrayValue without `values`
\* decodes to the empty list and a mapValue without `fields` to the empty
\* map; the class decoder and the module decoder return the same result.
C19_LenientAndEqualDecoders ==
    fpc = "done"
    => /\ fout.class = fout.module
       /\ ~HasFailure(fout.class)
       /\ "fields" \in DOMAIN fargs.v =>
             \A key \in DOMAIN fargs.v["fields"].v :
                LET value == fargs.v["fields"].v[key] IN
                /\ DOMAIN value.v \cap RecognizedTags = {}
                      => fout.class.v[key] = value
                /\ value = PyDict("arrayValue" :> EmptyDict)
                      => fout.class.v[key] = PyList(<<>>)
                /\ value = PyDict("mapValue" :> EmptyDict)
                      => fout.class.v[key] = EmptyDict

C19_Witness ==
    /\ fpc = "done"
    /\ fargs = PyDict("fields" :>
                  PyDict(("title" :> PyDict("arrayValue" :> PyDict("values" :>
                              PyList(<<PyDict("nullValue" :> None),
                                       PyDict("geoPointValue" :>
                                           PyDict("latitude" :> PyInt(7)))>>))))
                         @@ ("tags" :> PyDict("mapValue" :> EmptyDict))))
    /\ fout.module = PyDict(("title" :> PyList(<<None, PyDict("geoPointValue" :>
                                                     PyDict("latitude" :> PyInt(7)))>>))
                            @@ ("tags" :> EmptyDict))
    /\ fout.class = fout.module


-----------------------------------------------------------------------------
(* get_banners_by_state, run alone on one state.                           *)

BannerLimit == 10

StateFL == PyStr(<<"F", "L">>)
StateNY == PyStr(<<"N", "Y">>)
StateTX == PyStr(<<"T", "X">>)

\* The loop of lines 723-729 over what is left of active_banners, with
\* state_banners so far: the list, or Raised when banner.get fails on a None.
RECURSIVE state_banners_loop(_, _, _)
state_banners_loop(state, banners, state_banners) ==
    IF banners = <<>> THEN PyList(state_banners)
    ELSE LET banner == Head(banners) IN
         IF banner.k # "dict" THEN Raised
         ELSE LET state_list == DictGet(banner, "state_list", PyList(<<>>)) IN
              IF state_list.k = "list"
                 /\ \E i \in 1..Len(state_list.v) : state_list.v[i] = state
              THEN IF Len(state_banners) + 1 >= BannerLimit
                   THEN PyList(Append(state_banners, banner))
                   ELSE state_banners_loop(state, Tail(banners),
                                           Append(state_banners, banner))
              ELSE state_banners_loop(state, Tail(banners), state_banners)

\* get_banners_by_state, given what requests.post gives the query.
get_banners_by_state(state, response) ==
    LET active_banners == query_returned(response).v
        state_banners == state_banners_loop(state, active_banners, <<>>)
    IN IF state_banners = Raised THEN PyList(<<>>) ELSE state_banners

BannerItem(fields) ==
    PyDict("document" :> PyDict(("name" :> IdPlain)
                                @@ ("fields" :> _convert_to_firestore_format(fields))))

\* Items of the query result: banners with a state_list, one without, one
\* whose state_list is a string, a document without fields, and an item
\* without a document.
BannerItems ==
    {BannerItem(PyDict(("rank" :> PyInt(1)) @@ ("state_list" :> PyList(<<StateFL>>)))),
     BannerItem(PyDict(("rank" :> PyInt(2))
                       @@ ("state_list" :> PyList(<<StateNY, StateFL>>)))),
     BannerItem(PyDict("rank" :> PyInt(3))),
     BannerItem(PyDict(("rank" :> PyInt(4)) @@ ("state_list" :> StateFL))),
     PyDict("document" :> PyDict("name" :> IdPlain)),
     PyDict("readTime" :> PyStr(<<"t">>))}

\* Eleven banners of FL followed by a document without fields.
LongBannerResponse ==
    PyList([i \in 1..12 |->
               IF i = 12 THEN PyDict("document" :> PyDict("name" :> IdPlain))
               ELSE BannerItem(PyDict(("rank" :> PyInt(i))
                                      @@ ("state_list" :> PyList(<<StateFL>>))))])

BannerAnswers ==
    {[status |-> 200, body |-> PyList(s)] : s \in SeqsUpTo(BannerItems, MaxItems)}
    \cup {[status |-> 200, body |-> LongBannerResponse], ErrorResponse, Raised}

BannerInit ==
    /\ fpc = "input"
    /\ fname = "none"
    /\ fargs \in {StateFL, StateNY, StateTX}
    /\ fenv = None
    /\ fout = NoResult
    /\ GatewayUnused
    /\ CodecUnused
    /\ WriteUnused
    /\ QueryUnused
    /\ GigUnused

GetBannersByState ==
    /\ fpc = "input"
    /\ fpc' = "done"
    /\ fname' = "get_banners_by_state"
    /\ \E response \in BannerAnswers :
          /\ fenv' = [request |->
                         single_query(PyStr(<<"d", "e", "a", "l", "w", "e", "e", "k", "s">>),
                                      PyStr(<<"d", "i", "s", "p", "l", "a", "y">>),
                                      PyStr(<<"E", "Q", "U", "A", "L">>), PyTrue),
                      answer |-> response]
          /\ fout' = get_banners_by_state(fargs, response)
    /\ UNCHANGED <<fargs, gatewayVars, codecVars, writeVars, queryVars, gigVars>>

BannerNext == GetBannersByState

SpecBanners == BannerInit /\ [][BannerNext]_vars

\* The decoded documents of the query result, in order.
ActiveBanners ==
    LET with_document ==
            SelectSeq(fenv.answer.body.v, LAMBDA item : "document" \in DOMAIN item.v)
    IN [i \in 1..Len(with_document) |->
           convert_firestore_document(with_document[i].v["document"])]

HasState(banner, state) ==
    /\ banner.k = "dict"
    /\ "state_list" \in DOMAIN banner.v
    /\ banner.v["state_list"].k = "list"
    /\ \E i \in 1..Len(banner.v["state_list"].v) : banner.v["state_list"].v[i] = state

\* C20: get_banners_by_state(state) returns the first up to 10 documents, in
\* query order, of the query result whose state_list is a list containing
\* state, whatever other documents the result contains.
C20_FirstTenBannersOfState ==
    (fpc = "done" /\ fname = "get_banners_by_state"
     /\ fenv.answer # Raised /\ fenv.answer.status = 200)
    => LET matching == SelectSeq(ActiveBanners, LAMBDA banner : HasState(banner, fargs))
       IN fout = PyList(SubSeq(matching, 1,
                               IF Len(matching) < 10 THEN Len(matching) ELSE 10))


-----------------------------------------------------------------------------
(* FirestoreClient.query_collection, run alone on one collection.          *)

MaxDocs == 3

DefaultPageSize == 100

\* min(n, Len(s)) first elements: s[:n]
Take(s, n) == SubSeq(s, 1, IF Len(s) < n THEN Len(s) ELSE n)

\* One step of a stable insertion: x goes behind every element that does
\* not have to follow it.
RECURSIVE insert_sorted(_, _, _, _)
insert_sorted(done, x, field, reverse) ==
    IF done = <<>> THEN <<x>>
    ELSE LET last == done[Len(done)] IN
         IF (IF reverse THEN last.v[field].v >= x.v[field].v
                        ELSE last.v[field].v <= x.v[field].v)
         THEN Append(done, x)
         ELSE Append(insert_sorted(SubSeq(done, 1, Len(done) - 1), x, field, reverse),
                     last)

RECURSIVE sorted_from(_, _, _, _)
sorted_from(done, rest, field, reverse) ==
    IF rest = <<>> THEN done
    ELSE sorted_from(insert_sorted(done, Head(rest), field, reverse), Tail(rest),
                     field, reverse)

\* str(direction).lower() in ['desc', 'descending']
is_descending(direction) == direction \in {"desc", "DESC", "descending"}

\* sorted(results, key=lambda x: x.get(field, ''), reverse=reverse): Raised
\* when an x is None (no .get) or when '' meets an int.
py_sorted_by(results, field, reverse) ==
    IF \E i \in 1..Len(results) : results[i].k # "dict" THEN Raised
    ELSE IF /\ \E i \in 1..Len(results) : field \notin DOMAIN results[i].v
            /\ \E i \in 1..Len(results) : field \in DOMAIN results[i].v
         THEN Raised
    ELSE IF \A i \in 1..Len(results) : field \notin DOMAIN results[i].v
         THEN PyList(results)
    ELSE PyList(sorted_from(<<>>, results, field, reverse))

\* get_all_documents_from_collection, given what requests.get gives.
get_all_documents_from_collection(response) ==
    IF response = Raised THEN PyList(<<>>)
    ELSE IF response.status = 200 THEN
        LET documents == DictGet(response.body, "documents", PyList(<<>>)).v IN
        PyList([i \in 1..Len(documents) |-> convert_firestore_document(documents[i])])
    ELSE PyList(<<>>)

\* query_collection from the fetched results on (lines 49-57).
query_collection_finish(fetched, order_by, limit) ==
    LET ordered == IF order_by = None THEN fetched
                   ELSE py_sorted_by(fetched.v, order_by.field,
                                     is_descending(order_by.direction))
    IN IF ordered = Raised THEN Raised
       ELSE IF limit # None THEN PyList(Take(ordered.v, limit.v))
       ELSE ordered

ListDoc(name, fields) ==
    PyDict(("name" :> PyStr(name)) @@ ("fields" :> _convert_to_firestore_format(fields)))

\* The documents a collection may hold: three with a rank, and one without fields.
ListDocs ==
    {ListDoc(<<"a">>, PyDict(("rank" :> PyInt(2)) @@ ("is_avail" :> PyTrue))),
     ListDoc(<<"b">>, PyDict(("rank" :> PyInt(1)) @@ ("is_avail" :> PyFalse))),
     ListDoc(<<"c">>, PyDict(("rank" :> PyInt(3)) @@ ("is_avail" :> PyTrue))),
     PyDict("name" :> PyStr(<<"d">>))}

\* A collection: distinct documents in the order the store lists them.
Collections ==
    {s \in SeqsUpTo(ListDocs, MaxDocs) : \A i, j \in 1..Len(s) : i # j => s[i] # s[j]}

AvailFilter ==
    PyList(<<PyDict(("field" :> PyStr(KeyChars("is_avail")))
                    @@ ("operator" :> PyStr(<<"E", "Q", "U", "A", "L">>))
                    @@ ("value" :> PyTrue))>>)

\* The store's side of runQuery: a document matches when each filter's field
\* holds the filter's value.
Matches(document, filters) ==
    \A i \in 1..Len(filters.v) :
        /\ HasKey(document, "fields")
        /\ \E key \in DOMAIN document.v["fields"].v :
              /\ KeyChars(key) = filters.v[i].v["field"].v
              /\ document.v["fields"].v[key]
                    = convert_value_to_firestore_format(filters.v[i].v["value"])

\* The store's 200 answers: runQuery gives every matching document, the
\* collection GET gives the first pageSize documents.
RunQueryBody(stored, filters) ==
    LET matching == SelectSeq(stored, LAMBDA document : Matches(document, filters)) IN
    IF matching = <<>> THEN PyList(<<PyDict("readTime" :> PyStr(<<"t">>))>>)
    ELSE PyList([i \in 1..Len(matching) |-> PyDict("document" :> matching[i])])

ListBody(stored, pageSize) ==
    IF stored = <<>> THEN EmptyDict
    ELSE PyDict("documents" :> PyList(Take(stored, pageSize)))

ListInit ==
    /\ fpc = "input"
    /\ fname = "none"
    /\ fargs \in [filters : {None, PyList(<<>>), AvailFilter},
                  order_by : {None} \cup [field : {"rank"},
                                          direction : {"asc", "desc", "DESC"}],
                  limit : {None, PyInt(1), PyInt(2)}]
    /\ fenv \in [stored : Collections]
    /\ fout = NoResult
    /\ GatewayUnused
    /\ CodecUnused
    /\ WriteUnused
    /\ QueryUnused
    /\ GigUnused

QueryCollectionDone(request, response, fetched) ==
    /\ fpc = "input"
    /\ fpc' = "done"
    /\ fname' = "query_collection"
    /\ fenv' = [stored |-> fenv.stored, request |-> request, answer |-> response]
    /\ fout' = query_collection_finish(fetched, fargs.order_by, fargs.limit)
    /\ UNCHANGED <<fargs, gatewayVars, codecVars, writeVars, queryVars, gigVars>>

\* `if filters:` true
QueryCollectionFiltered ==
    /\ fargs.filters # None
    /\ fargs.filters # PyList(<<>>)
    /\ \E response \in {[status |-> 200, body |-> RunQueryBody(fenv.stored, fargs.filters)],
                        ErrorResponse, Raised} :
          QueryCollectionDone(structured_query(PyStr(Collection), fargs.filters),
                              response, query_returned(response))

\* `if filters:` false
QueryCollectionAll ==
    /\ fargs.filters \in {None, PyList(<<>>)}
    /\ LET pageSize == IF fargs.limit # None THEN fargs.limit.v ELSE DefaultPageSize IN
       \E response \in {[status |-> 200, body |-> ListBody(fenv.stored, pageSize)],
                        ErrorResponse, Raised} :
          QueryCollectionDone([pageSize |-> pageSize], response,
                              get_all_documents_from_collection(response))

ListNext == QueryCollectionFiltered \/ QueryCollectionAll

SpecList == ListInit /\ [][ListNext]_vars

\* The decoded matching documents of the whole collection.
AllMatching ==
    LET matching ==
            SelectSeq(fenv.stored,
                      LAMBDA document :
                          fargs.filters = None \/ Matches(document, fargs.filters))
    IN [i \in 1..Len(matching) |-> convert_firestore_document(matching[i])]

Ranked(documents) ==
    \A i \in 1..Len(documents) :
        documents[i].k = "dict" /\ "rank" \in DOMAIN documents[i].v

\* s lists its documents by rank, ascending or descending.
InRankOrder(s, descending) ==
    \A i, j \in 1..Len(s) :
        i < j => IF descending THEN s[i].v["rank"].v >= s[j].v["rank"].v
                               ELSE s[i].v["rank"].v <= s[j].v["rank"].v

\* C16: with the store answering 200, the result of query_collection is the
\* first `limit` documents of the complete set of matching documents sorted
\* by the order_by field in the requested direction (in store order without
\* order_by), for filters or none.
C16_FirstOfAllMatchingSorted ==
    (/\ fpc = "done" /\ fname = "query_collection"
     /\ fenv.answer # Raised /\ fenv.answer.status = 200
     /\ fargs.order_by # None => Ranked(AllMatching))
    => \E expected \in {s \in SeqsUpTo({AllMatching[i] : i \in 1..Len(AllMatching)},
                                       Len(AllMatching)) :
                             /\ Len(s) = Len(AllMatching)
                             /\ \A i, j \in 1..Len(s) : i # j => s[i] # s[j]} :
          /\ IF fargs.order_by = None THEN expected = AllMatching
             ELSE InRankOrder(expected, is_descending(fargs.order_by.direction))
          /\ fout = PyList(IF fargs.limit = None THEN expected
                           ELSE Take(expected, fargs.limit.v))


\* C21: every element of a list returned by the list and query operations
\* (get_all_documents_from_collection and the multiple-filter query, through
\* query_collection) is a decoded map, never None, and query_collection's
\* sort reads a field of each element without raising.
C21_EveryElementIsDecodedMap ==
    (fpc = "done" /\ fname = "query_collection")
    => /\ fout.k = "list"
       /\ \A i \in 1..Len(fout.v) : fout.v[i].k = "dict"

-----------------------------------------------------------------------------
(* views.gig_creation: concurrent requests, the GigCreation table and the  *)
(* app_jobs collection. The table commits each statement as it runs        *)
(* (Django's autocommit).                                                  *)

\* Values generate_firebase_id may draw.
GigIds == {"g1", "g2", "g3"}

GigInit ==
    /\ gpc = [r \in Procs |-> "idle"]
    /\ gid = [r \in Procs |-> None]
    /\ gresult = [r \in Procs |-> NoResult]
    /\ gtries = [r \in Procs |-> 0]
    /\ rows = {}
    /\ mirror = {}
    /\ GatewayUnused
    /\ CodecUnused
    /\ WriteUnused
    /\ QueryUnused
    /\ RunUnused

GigOthersUnchanged == UNCHANGED <<gatewayVars, codecVars, writeVars, queryVars, runVars>>

\* A request that is not a POST: the form is rendered.
GigGet(r) ==
    /\ gpc[r] = "idle"
    /\ gpc' = [gpc EXCEPT ![r] = "rendered"]
    /\ UNCHANGED <<gid, gresult, gtries, rows, mirror>>
    /\ GigOthersUnchanged

\* POST: GigCreation.objects.create(...). The insert fails on an id already
\* in the table or on data the table rejects, and the exception leaves the
\* view.
GigCreate(r) ==
    /\ gpc[r] = "idle"
    /\ \E id \in GigIds, accepted \in BOOLEAN :
          IF accepted /\ id \notin rows
          THEN /\ rows' = rows \cup {id}
               /\ gid' = [gid EXCEPT ![r] = id]
               /\ gpc' = [gpc EXCEPT ![r] = "created"]
          ELSE /\ gpc' = [gpc EXCEPT ![r] = "raised"]
               /\ UNCHANGED <<rows, gid>>
    /\ UNCHANGED <<gresult, gtries, mirror>>
    /\ GigOthersUnchanged

\* The position after the `if not result` of lines 122-125: the redirect in
\* both branches, with a retry when the write failed.
after_set_document_retrying(returned) ==
    IF returned = PyFalse THEN "created" ELSE "redirected"

\* The position after the `if not result` of lines 122-125: the redirect in
\* both branches.
after_set_document(returned) == "redirected"

\* firebase_client.set_document('app_jobs', firebase_data['id'], firebase_data):
\* the store takes the write and answers 200, answers another status, or
\* the HTTP call raises (the write taken or not) and the exception leaves
\* the view.
GigSetDocument(r) ==
    /\ gpc[r] = "created"
    /\ gtries' = [gtries EXCEPT ![r] = @ + 1]
    /\ \E outcome \in Outcomes, taken \in BOOLEAN :
          CASE outcome = "served" ->
                  /\ taken
                  /\ mirror' = mirror \cup {gid[r]}
                  /\ gresult' = [gresult EXCEPT ![r] = PyTrue]
                  /\ gpc' = [gpc EXCEPT ![r] = "written"]
            [] outcome = "error" ->
                  /\ ~taken
                  /\ mirror' = mirror
                  /\ gresult' = [gresult EXCEPT ![r] = PyFalse]
                  /\ gpc' = [gpc EXCEPT ![r] = "written"]
            [] outcome = "exception" ->
                  /\ mirror' = IF taken THEN mirror \cup {gid[r]} ELSE mirror
                  /\ gresult' = [gresult EXCEPT ![r] = Raised]
                  /\ gpc' = [gpc EXCEPT ![r] = "raised"]
    /\ UNCHANGED <<gid, rows>>
    /\ GigOthersUnchanged

\* Lines 122-127: the outcome is printed and the view redirects.
GigRedirect(r) ==
    /\ gpc[r] = "written"
    /\ gpc' = [gpc EXCEPT ![r] = after_set_document(gresult[r])]
    /\ UNCHANGED <<gid, gresult, gtries, rows, mirror>>
    /\ GigOthersUnchanged

\* The client sends its next request.
GigNextRequest(r) ==
    /\ gpc[r] \in {"rendered", "redirected", "raised"}
    /\ gpc' = [gpc EXCEPT ![r] = "idle"]
    /\ gid' = [gid EXCEPT ![r] = None]
    /\ gresult' = [gresult EXCEPT ![r] = NoResult]
    /\ gtries' = [gtries EXCEPT ![r] = 0]
    /\ UNCHANGED <<rows, mirror>>
    /\ GigOthersUnchanged

GigNext ==
    \/ \E r \in Procs : GigGet(r)
    \/ \E r \in Procs : GigCreate(r)
    \/ \E r \in Procs : GigSetDocument(r)
    \/ \E r \in Procs : GigRedirect(r)
    \/ \E r \in Procs : GigNextRequest(r)

SpecGig == GigInit /\ [][GigNext]_vars

\* C15: the mirrored write is issued only for a row already created; after a
\* set_document that returned False the view goes on to the redirect with
\* no second write and with the table and the collection as they are; no
\* mirrored document is ever without its row.
C15_MirrorOnlyAfterRowNoRetry ==
    [][/\ mirror' \subseteq rows'
       /\ \A r \in Procs :
             /\ gtries'[r] > gtries[r] => gid[r] \in rows
             /\ gtries'[r] <= 1
             /\ (gpc[r] = "written" /\ gresult[r] = PyFalse /\ gpc'[r] # gpc[r])
                => /\ gpc'[r] = "redirected"
                   /\ rows' = rows
                   /\ mirror' = mirror]_vars

\* A request redirected after a failed write: its row is there, its mirrored
\* document is not.
C15_Witness ==
    \E r \in Procs :
        /\ gpc[r] = "redirected"
        /\ gresult[r] = PyFalse
        /\ gid[r] \in rows
        /\ gid[r] \notin mirror

=============================================================================
